---- MODULE Spec2Model ----
(***************************************************************************)
(* A model of application/client.py: the Request serializer, the Response  *)
(* parser and the Client that owns the socket.                             *)
(*                                                                         *)
(* Bytes and text are sequences of byte values 0..255.  Text is encoded    *)
(* with ISO-8859-1, which maps the code point n to the byte n, so a str    *)
(* and its encoding are the same sequence of numbers here; all text of the *)
(* model is ASCII.  The literal byte strings are written out as numbers    *)
(* with the text they stand for in a comment.                              *)
(*                                                                         *)
(* ClientSecured only wraps the socket in a TLS session; its connect,      *)
(* sendall and recv end in the same ways (they return, or raise an         *)
(* OSError), so the one Client below stands for both.                      *)
(***************************************************************************)
EXTENDS Integers, Sequences, FiniteSets, TLC

\* ------------------------------------------------------------------ bounds

\* The most user headers given on the command line.
MaxUserHeaders == 2
\* The most segments the peer sends before it closes or goes silent.
MaxSegments == 2
\* How far around a read boundary the response delimiter is moved.
MaxShift == 4

\* --------------------------------------------------------- program constants

\* raw_response.read(2048): the parser's first read.
FIRST_READ == 2048
\* raw_response.read(1024): every later read of the parser.
NEXT_READ == 1024
\* self._sock.recv(1024)
RECV_SIZE == 1024
\* response.message_body.read(1024) in get_results
WRITE_SIZE == 1024

\* ------------------------------------------------------------ byte strings

CRLF == <<13, 10>>                                   \* b"\r\n"
DELIM == <<13, 10, 13, 10>>                          \* b"\r\n\r\n"
T_Colon == <<58>>                                    \* ":"
T_ColonSp == <<58, 32>>                              \* ": "
T_Sp == <<32>>                                       \* " "
T_NL == <<10>>                                       \* "\n"
Digits == 48..57                                     \* 0-9

T_Host == <<72, 111, 115, 116>>                                          \* Host
T_UserAgent == <<85, 115, 101, 114, 45, 65, 103, 101, 110, 116>>        \* User-Agent
T_Accept == <<65, 99, 99, 101, 112, 116>>                                \* Accept
T_Connection == <<67, 111, 110, 110, 101, 99, 116, 105, 111, 110>>       \* Connection
T_ContentLength == <<67, 111, 110, 116, 101, 110, 116, 45, 76, 101, 110, 103, 116, 104>> \* Content-Length
T_ContentType == <<67, 111, 110, 116, 101, 110, 116, 45, 84, 121, 112, 101>>  \* Content-Type
T_AnyType == <<42, 47, 42>>                                              \* */*
T_close == <<99, 108, 111, 115, 101>>                                    \* close
T_text_plain == <<116, 101, 120, 116, 47, 112, 108, 97, 105, 110>>       \* text/plain
T_Mozilla == <<77, 111, 122, 105, 108, 108, 97, 47, 53, 46, 48>>         \* Mozilla/5.0
T_HTTP11_CRLF == <<32, 72, 84, 84, 80, 47, 49, 46, 49, 13, 10>>          \* " HTTP/1.1\r\n"
T_HTTP1dot == <<72, 84, 84, 80, 47, 49, 46>>                             \* HTTP/1.
T_Arrow == <<45, 62, 32>>                                                \* "-> "
T_GET == <<71, 69, 84>>                                                  \* GET
T_POST == <<80, 79, 83, 84>>                                             \* POST

\* ---------------------------------------------------- Python's bytes and str

Min2(a, b) == IF a < b THEN a ELSE b
Max2(a, b) == IF a > b THEN a ELSE b
MinOf(S) == CHOOSE x \in S : \A y \in S : x <= y

\* s.find(sub): the 0-based offset of the first occurrence of sub, or -1.
find(s, sub) ==
    LET hits == {i \in 0..(Len(s) - Len(sub)) :
                    \A k \in 1..Len(sub) : s[i + k] = sub[k]}
    IN IF hits = {} THEN -1 ELSE MinOf(hits)

\* s[:hi], with Python's reading of a negative or too large bound.
SliceTo(s, hi) ==
    SubSeq(s, 1, IF hi < 0 THEN Max2(Len(s) + hi, 0) ELSE Min2(hi, Len(s)))

\* s[lo:]
SliceFrom(s, lo) ==
    SubSeq(s, (IF lo < 0 THEN Max2(Len(s) + lo, 0) ELSE Min2(lo, Len(s))) + 1, Len(s))

\* s.split(sep), and s.split(sep, 1) below: at least one piece, always.
RECURSIVE split(_, _)
split(s, sep) ==
    LET i == find(s, sep)
    IN IF i = -1 THEN <<s>>
       ELSE <<SliceTo(s, i)>> \o split(SliceFrom(s, i + Len(sep)), sep)

split1(s, sep) ==
    LET i == find(s, sep)
    IN IF i = -1 THEN <<s>> ELSE <<SliceTo(s, i), SliceFrom(s, i + Len(sep))>>

\* f"{n}" of a non-negative int: its decimal digits.
RECURSIVE IntToDec(_)
IntToDec(n) ==
    IF n < 10 THEN <<48 + n>> ELSE IntToDec(n \div 10) \o <<48 + (n % 10)>>

\* A header value is a str or an int (Content-Length); f"{value}" formats it.
StrVal(s) == [str |-> s]
IntVal(n) == [int |-> n]
Format(v) == IF "int" \in DOMAIN v THEN IntToDec(v.int) ELSE v.str

\* io.BytesIO: read(n) at position pos returns at most n bytes from there.
read(buf, pos, n) == SubSeq(buf, pos + 1, Min2(pos + n, Len(buf)))

\* part = f.read(n); while part: out.write(part); part = f.read(n)
RECURSIVE read_loop(_, _, _)
read_loop(buf, pos, n) ==
    LET part == read(buf, pos, n)
    IN IF part = <<>> THEN <<>> ELSE part \o read_loop(buf, pos + Len(part), n)

\* A dict: the keys in insertion order, each once, as <<key, value>> pairs.
HasKey(d, k) == \E i \in 1..Len(d) : d[i][1] = k

\* d[k] = v: an existing key keeps its place and takes the value, a new key
\* goes to the end.
DictSet(d, k, v) ==
    IF HasKey(d, k)
    THEN [i \in 1..Len(d) |-> IF d[i][1] = k THEN <<k, v>> ELSE d[i]]
    ELSE Append(d, <<k, v>>)

\* A merge that adds the other pairs at the end and leaves a colliding key
\* in place as well.
DictUpdate_append(d, other) == d \o other

\* d.update(other)
RECURSIVE DictUpdate(_, _)
DictUpdate(d, other) ==
    IF other = <<>> THEN d
    ELSE DictUpdate(DictSet(d, Head(other)[1], Head(other)[2]), Tail(other))

\* ---------------------------------------------------------------- Request

\* HEADER_EXPR = r"[a-zA-z\-]+": the class a-z, A-z (which runs from "A" to
\* "z" and so takes in [ \ ] ^ _ ` as well) and "-".
HEADER_EXPR == (97..122) \cup (65..122) \cup {45}

\* re.search(HEADER_EXPR, name): a run of one or more bytes of the class
\* anywhere in the name.
search_HEADER_EXPR(name) == \E i \in 1..Len(name) : name[i] \in HEADER_EXPR

\* Request.parse_user_headers, from the pair at position i on, with the
\* dict built so far: the first name that fails the search raises
\* HeaderFormatError(name), and nothing is returned.
RECURSIVE parse_user_headers_from(_, _, _)
parse_user_headers_from(headers, i, result) ==
    IF i > Len(headers) THEN [err |-> "none", result |-> result]
    ELSE IF ~search_HEADER_EXPR(headers[i][1])
         THEN [err |-> "HeaderFormatError", name |-> headers[i][1]]
         ELSE parse_user_headers_from(headers, i + 1,
                  DictSet(result, headers[i][1], StrVal(headers[i][2])))

parse_user_headers(headers) == parse_user_headers_from(headers, 1, <<>>)

\* The POST headers set after the user's, so that they replace the user's.
get_request_headers_post_last(method, host, user_agent, content_length, content_type, user_headers) ==
    LET base == << <<T_Host, StrVal(host)>>,
                   <<T_UserAgent, StrVal(user_agent)>>,
                   <<T_Accept, StrVal(T_AnyType)>>,
                   <<T_Connection, StrVal(T_close)>> >>
        merged == DictUpdate(base, user_headers)
    IN IF method = T_POST
       THEN DictSet(DictSet(merged, T_ContentLength, IntVal(content_length)),
                    T_ContentType, StrVal(content_type))
       ELSE merged

\* Request.get_request_headers
get_request_headers(method, host, user_agent, content_length, content_type, user_headers) ==
    LET base == << <<T_Host, StrVal(host)>>,
                   <<T_UserAgent, StrVal(user_agent)>>,
                   <<T_Accept, StrVal(T_AnyType)>>,
                   <<T_Connection, StrVal(T_close)>> >>
        post == IF method = T_POST
                THEN DictSet(DictSet(base, T_ContentLength, IntVal(content_length)),
                             T_ContentType, StrVal(content_type))
                ELSE base
    IN DictUpdate(post, user_headers)

\* Request.__init__, after input_data.read(): the Request, or the error of
\* parse_user_headers.
Request(method, uri, headers, message_body, user_agent, verbose) ==
    LET parsed == parse_user_headers(headers)
    IN IF parsed.err # "none" THEN parsed
       ELSE [err |-> "none",
             message_body |-> message_body,
             method |-> method,
             verbose |-> verbose,
             url |-> uri,
             user_agent |-> user_agent,
             user_headers |-> parsed.result,
             content_type |-> T_text_plain,
             content_length |-> Len(message_body),
             headers |-> get_request_headers(method, uri.host, user_agent,
                             Len(message_body), T_text_plain, parsed.result)]

\* One header of Request.__bytes__: f"{header}: {value}\r\n"
header_line(h) == h[1] \o T_ColonSp \o Format(h[2]) \o CRLF

RECURSIVE header_lines(_)
header_lines(hs) ==
    IF hs = <<>> THEN <<>> ELSE header_line(Head(hs)) \o header_lines(Tail(hs))

\* Request.__bytes__: the request line, the headers, the empty line, the
\* body and a trailing b"\r\n\r\n".
Request_bytes(req) ==
    req.method \o T_Sp \o req.url.raw_path_qs \o T_HTTP11_CRLF
        \o header_lines(req.headers)
        \o CRLF \o req.message_body \o DELIM

\* What Request.__bytes__ prints in verbose mode: print(f"-> {header}: {value}")
\* for each header, each print ending in "\n".
RECURSIVE verbose_trace(_)
verbose_trace(hs) ==
    IF hs = <<>> THEN <<>>
    ELSE T_Arrow \o Head(hs)[1] \o T_ColonSp \o Format(Head(hs)[2]) \o T_NL
             \o verbose_trace(Tail(hs))

\* --------------------------------------------------------------- Response

\* str(line) of a bytes object: b'...' with \r, \n and \ escaped.  (The
\* model's bytes are printable ASCII, CR and LF, and hold no quote.)
RECURSIVE str_bytes_body(_)
str_bytes_body(line) ==
    IF line = <<>> THEN <<>>
    ELSE (IF Head(line) = 13 THEN <<92, 114>>
          ELSE IF Head(line) = 10 THEN <<92, 110>>
          ELSE IF Head(line) = 92 THEN <<92, 92>>
          ELSE <<Head(line)>>) \o str_bytes_body(Tail(line))

str_bytes(line) == <<98, 39>> \o str_bytes_body(line) \o <<39>>

\* STARTING_LINE_EXPR = r"HTTP/1\.[01] (\d\d\d)[ \w]*" matched at offset i
\* of s: "HTTP/1.", 0 or 1, a space, three digits; [ \w]* matches any rest,
\* the empty one too.
STARTING_LINE_EXPR(s, i) ==
    /\ i + 12 <= Len(s)
    /\ SubSeq(s, i + 1, i + 7) = T_HTTP1dot
    /\ s[i + 8] \in {48, 49}
    /\ s[i + 9] = 32
    /\ \A k \in 10..12 : s[i + k] \in Digits

\* Response.get_status: re.search finds the leftmost match anywhere in
\* str(line); no match raises IncorrectStartingLineError.
get_status(line) ==
    LET s == str_bytes(line)
        hits == {i \in 0..Len(s) : STARTING_LINE_EXPR(s, i)}
        i == MinOf(hits)
    IN IF hits = {} THEN [err |-> "IncorrectStartingLineError", line |-> line]
       ELSE [err |-> "none",
             status |-> (s[i + 10] - 48) * 100 + (s[i + 11] - 48) * 10 + (s[i + 12] - 48)]

\* Response.parse_headers: name, value = header.decode().split(":", 1); a
\* line without ":" fails the unpacking with ValueError.
RECURSIVE parse_headers_from(_, _, _)
parse_headers_from(raw_headers, i, result) ==
    IF i > Len(raw_headers) THEN [err |-> "none", result |-> result]
    ELSE LET nv == split1(raw_headers[i], T_Colon)
         IN IF Len(nv) # 2 THEN [err |-> "ValueError", line |-> raw_headers[i]]
            ELSE parse_headers_from(raw_headers, i + 1, DictSet(result, nv[1], nv[2]))

parse_headers(raw_headers) == parse_headers_from(raw_headers, 1, <<>>)

\* The delimiter search of Response.from_bytes: the first read, and a second
\* one when the first holds no delimiter.  The result of the second find is
\* used as it is, -1 included.
split_head(raw_response) ==
    LET part1 == read(raw_response, 0, FIRST_READ)
        index1 == find(part1, DELIM)
        part2 == read(raw_response, Len(part1), NEXT_READ)
    IN IF index1 = -1
       THEN [raw_headers |-> part1 \o SliceTo(part2, find(part2, DELIM)),
             body_start |-> SliceFrom(part2, find(part2, DELIM) + 4),
             pos |-> Len(part1) + Len(part2)]
       ELSE [raw_headers |-> SliceTo(part1, index1),
             body_start |-> SliceFrom(part1, index1 + 4),
             pos |-> Len(part1)]

\* Response.from_bytes: the Response, or the error raised.
from_bytes(raw_response) ==
    LET h == split_head(raw_response)
        message_body == h.body_start \o read_loop(raw_response, h.pos, NEXT_READ)
        headers == split(h.raw_headers, CRLF)
        http_status_code == get_status(headers[1])
        parsed_headers == parse_headers(Tail(headers))
    IN IF http_status_code.err # "none" THEN http_status_code
       ELSE IF parsed_headers.err # "none" THEN parsed_headers
       ELSE [err |-> "none",
             status_code |-> http_status_code.status,
             headers |-> parsed_headers.result,
             message_body |-> message_body,
             headers_as_bytes |-> h.raw_headers]

\* ------------------------------------------------------------------ state

VARIABLES
    args,             \* the command-line arguments given to Client(args)
    pc,               \* where the client is
    user_data,        \* self._user_data: the bytes of the input stream
    sock,             \* self._sock: "none", "open", "connected" or "closed"
    attempts,         \* the calls of self._sock.connect made
    sent,             \* the bytes the socket has taken from sendall
    peer,             \* the server's end: "open" or "closed"
    wire,             \* bytes the server has sent and recv has not returned yet
    segments,         \* how many segments the server has sent
    rx,               \* every value recv has returned, in order
    server_response,  \* the buffer of receive_response
    request,          \* self.request
    response,         \* the Response that send_request returned
    raised,           \* the exception that left the client, if one did
    stdout,           \* the bytes written to standard output
    outfile           \* the bytes written to the file args["Output"] names

vars == <<args, pc, user_data, sock, attempts, sent, peer, wire, segments, rx,
          server_response, request, response, raised, stdout, outfile>>

NoneVal == [none |-> TRUE]
NoError == [type |-> "none", args |-> <<>>]
Error(type, a) == [type |-> type, args |-> a]

\* ------------------------------------------------------------------ inputs

T_example_com == <<101, 120, 97, 109, 112, 108, 101, 46, 99, 111, 109>>  \* example.com
T_path == <<47, 112, 97, 116, 104, 63, 120, 61, 49>>                     \* /path?x=1
T_out_bin == <<111, 117, 116, 46, 98, 105, 110>>                         \* out.bin
T_body_bin == <<98, 111, 100, 121, 46, 98, 105, 110>>                    \* body.bin
T_hello_world == <<104, 101, 108, 108, 111, 32, 119, 111, 114, 108, 100, 33>> \* hello world!
T_XTest == <<88, 45, 84, 101, 115, 116>>                                 \* X-Test
T_X1 == <<88, 49>>                                                       \* X1
T_X_A == <<88, 95, 65>>                                                  \* X_A
T_1 == <<49>>                                                            \* 1
T_v == <<118>>                                                           \* v
T_5 == <<53>>                                                            \* 5

\* yarl's URL(args["URL"]), as the three fields the client reads.  A URL
\* without a host (a bare path, say) has an empty host.
URL_with_host == [host |-> T_example_com, port |-> 80, raw_path_qs |-> T_path]
URL_without_host == [host |-> <<>>, port |-> 80, raw_path_qs |-> T_path]

\* The content of the file args["Upload"] names.
FileContent(filename) == <<97>>                                          \* a

\* The user header pairs the request specification draws from.
UserHeaderPairs ==
    { <<T_XTest, T_v>>, <<T_XTest, T_5>>, <<T_ContentType, T_v>>,
      <<T_ContentLength, T_5>>, <<T_Host, T_v>>, <<T_X1, T_v>>,
      <<T_X_A, T_v>>, <<T_1, T_v>>, <<<<>>, T_v>> }

SeqsUpTo(S, n) == UNION {[1..k -> S] : k \in 0..n}

\* What the server may send in one segment.
Segments ==
    { <<72, 84, 84, 80, 47, 49, 46, 49, 32, 50, 48, 48, 32, 79, 75, 13, 10, 88, 58, 32, 118, 13, 10>>,
                                                     \* "HTTP/1.1 200 OK\r\nX: v\r\n"
      <<13, 10, 104, 105>>,                          \* "\r\nhi"
      <<71, 65, 82, 66, 65, 71, 69, 13, 10, 13, 10>> \* "GARBAGE\r\n\r\n"
    }

\* --------------------------------------------------------- Client.__init__

\* Client.extract_input_data
extract_input_data(filename, cmd_data) ==
    IF filename # <<>> THEN FileContent(filename) ELSE cmd_data

\* self._output_mode, self._include, self._user_data
Client_init_extract_input_data ==
    /\ pc = "start"
    /\ user_data' = extract_input_data(args.Upload, args.Data)
    /\ pc' = "init_socket"
    /\ UNCHANGED <<args, sock, attempts, sent, peer, wire, segments, rx,
                   server_response, request, response, raised, stdout, outfile>>

\* self._sock = socket.socket(socket.AF_INET, socket.SOCK_STREAM)
Client_init_socket ==
    /\ pc = "init_socket"
    /\ sock' = "open"
    /\ pc' = "init_url"
    /\ UNCHANGED <<args, user_data, attempts, sent, peer, wire, segments, rx,
                   server_response, request, response, raised, stdout, outfile>>

\* self._url = URL(args["URL"]), and the check of its host
Client_init_url ==
    /\ pc = "init_url"
    /\ IF args.URL.host = <<>>
       THEN /\ raised' = Error("UrlParsingError", <<args.URL>>)
            /\ pc' = "raised"
       ELSE /\ raised' = raised
            /\ pc' = "init_request"
    /\ UNCHANGED <<args, user_data, sock, attempts, sent, peer, wire, segments, rx,
                   server_response, request, response, stdout, outfile>>

\* self.request = Request(...)
Client_init_request ==
    /\ pc = "init_request"
    /\ LET r == Request(args.Method, args.URL, args.Headers, user_data,
                        args.Agent, args.Verbose)
       IN IF r.err # "none"
          THEN /\ raised' = Error(r.err, <<r.name>>)
               /\ request' = request
               /\ pc' = "raised"
          ELSE /\ raised' = raised
               /\ request' = r
               /\ pc' = "constructed"
    /\ UNCHANGED <<args, user_data, sock, attempts, sent, peer, wire, segments, rx,
                   server_response, response, stdout, outfile>>

\* ------------------------------------------------------ Client.send_request

\* What self._sock.connect may do: connect, fail to resolve the address
\* (socket.gaierror), or fail to connect (another OSError: refused, timed
\* out, unreachable).
ConnectOutcomes == {"connected", "gaierror", "OSError"}

\* The except clause of send_request: the exception that leaves it when the
\* try block raised e.
send_request_except(e, host, port) ==
    IF e = "gaierror" THEN Error("ConnectingError", <<host, port>>)
    ELSE Error(e, <<>>)

\* self._sock.connect((self._url.host, self._url.port))
send_request_connect ==
    /\ pc = "constructed"
    /\ attempts' = attempts + 1
    /\ \E outcome \in ConnectOutcomes :
          IF outcome = "connected"
          THEN /\ sock' = "connected"
               /\ raised' = raised
               /\ pc' = "sendall"
          ELSE /\ sock' = sock
               /\ raised' = send_request_except(outcome, args.URL.host, args.URL.port)
               /\ pc' = "raised"
    /\ UNCHANGED <<args, user_data, sent, peer, wire, segments, rx,
                   server_response, request, response, stdout, outfile>>

\* self._sock.sendall(bytes(self.request)): bytes() prints the headers in
\* verbose mode; sendall sends everything, or fails with an OSError after
\* the socket took some of the bytes.
send_request_sendall ==
    /\ pc = "sendall"
    /\ stdout' = IF request.verbose THEN stdout \o verbose_trace(request.headers)
                 ELSE stdout
    /\ \E ok \in BOOLEAN :
          IF ok
          THEN /\ sent' = sent \o Request_bytes(request)
               /\ raised' = raised
               /\ pc' = "recv"
          ELSE /\ \E n \in {0, Len(request.method)} :
                     sent' = sent \o SliceTo(Request_bytes(request), n)
               /\ raised' = send_request_except("OSError", args.URL.host, args.URL.port)
               /\ pc' = "raised"
    /\ UNCHANGED <<args, user_data, sock, attempts, peer, wire, segments, rx,
                   server_response, request, response, outfile>>

\* ------------------------------------------------------------- the server

peer_send ==
    /\ sock = "connected"
    /\ peer = "open"
    /\ segments < MaxSegments
    /\ \E seg \in Segments : wire' = wire \o seg
    /\ segments' = segments + 1
    /\ UNCHANGED <<args, pc, user_data, sock, attempts, sent, peer, rx,
                   server_response, request, response, raised, stdout, outfile>>

peer_close ==
    /\ sock = "connected"
    /\ peer = "open"
    /\ peer' = "closed"
    /\ UNCHANGED <<args, pc, user_data, sock, attempts, sent, wire, segments, rx,
                   server_response, request, response, raised, stdout, outfile>>

\* -------------------------------------------------- Client.receive_response

\* A loop that takes a short read for the end of the response.
recv_ends_loop_on_short_read(data) == Len(data) < RECV_SIZE

\* if not data: break
recv_ends_loop(data) == data = <<>>

\* A receive loop that passes each piece on to the output as it arrives.
receive_response_recv_data_streaming ==
    /\ pc = "recv"
    /\ wire # <<>>
    /\ LET data == SliceTo(wire, RECV_SIZE)
       IN /\ wire' = SliceFrom(wire, Len(data))
          /\ rx' = Append(rx, data)
          /\ server_response' = server_response \o data
          /\ IF args.Output # <<>>
             THEN outfile' = outfile \o data /\ stdout' = stdout
             ELSE stdout' = stdout \o data /\ outfile' = outfile
          /\ pc' = "recv"
    /\ UNCHANGED <<args, user_data, sock, attempts, sent, peer, segments,
                   request, response, raised>>

\* data = self._sock.recv(1024) when bytes are waiting: at most 1024 of
\* them; and then the test and server_response.write(data).
receive_response_recv_data ==
    /\ pc = "recv"
    /\ wire # <<>>
    /\ LET data == SliceTo(wire, RECV_SIZE)
       IN /\ wire' = SliceFrom(wire, Len(data))
          /\ rx' = Append(rx, data)
          /\ IF recv_ends_loop(data)
             THEN /\ server_response' = server_response
                  /\ pc' = "close"
             ELSE /\ server_response' = server_response \o data
                  /\ pc' = "recv"
    /\ UNCHANGED <<args, user_data, sock, attempts, sent, peer, segments,
                   request, response, raised, stdout, outfile>>

\* recv on a connection the server has closed, with nothing left to read,
\* returns b"".  (With the server silent and the connection open, recv
\* blocks: no step.)
receive_response_recv_eof ==
    /\ pc = "recv"
    /\ wire = <<>>
    /\ peer = "closed"
    /\ rx' = Append(rx, <<>>)
    /\ IF recv_ends_loop(<<>>)
       THEN /\ server_response' = server_response
            /\ pc' = "close"
       ELSE /\ server_response' = server_response \o <<>>
            /\ pc' = "recv"
    /\ UNCHANGED <<args, user_data, sock, attempts, sent, peer, wire, segments,
                   request, response, raised, stdout, outfile>>

\* recv fails (the connection is reset): the OSError leaves receive_response
\* and send_request, which has no handler left for it.
receive_response_recv_error ==
    /\ pc = "recv"
    /\ raised' = Error("OSError", <<>>)
    /\ pc' = "raised"
    /\ UNCHANGED <<args, user_data, sock, attempts, sent, peer, wire, segments, rx,
                   server_response, request, response, stdout, outfile>>

\* self._sock.close(); server_response.seek(0)
receive_response_close ==
    /\ pc = "close"
    /\ sock' = "closed"
    /\ pc' = "parse"
    /\ UNCHANGED <<args, user_data, attempts, sent, peer, wire, segments, rx,
                   server_response, request, response, raised, stdout, outfile>>

\* return Response.from_bytes(server_response)
receive_response_from_bytes ==
    /\ pc = "parse"
    /\ LET r == from_bytes(server_response)
       IN IF r.err # "none"
          THEN /\ raised' = Error(r.err, <<r.line>>)
               /\ response' = response
               /\ pc' = "raised"
          ELSE /\ raised' = raised
               /\ response' = r
               /\ pc' = "returned"
    /\ UNCHANGED <<args, user_data, sock, attempts, sent, peer, wire, segments, rx,
                   server_response, request, stdout, outfile>>

\* ------------------------------------------------------- Client.get_results

\* What get_results writes to its output: the raw headers when asked to
\* include them, then the body, WRITE_SIZE bytes at a time.
get_results_output(resp, include) ==
    (IF include THEN resp.headers_as_bytes ELSE <<>>)
        \o read_loop(resp.message_body, 0, WRITE_SIZE)

\* Client.get_results, and Client.exit_client at its end.  The output is
\* standard output, or the file named, opened for writing (and so emptied).
get_results ==
    /\ pc = "returned"
    /\ IF args.Output # <<>>
       THEN /\ outfile' = get_results_output(response, args.Include)
            /\ stdout' = stdout
       ELSE /\ stdout' = stdout \o get_results_output(response, args.Include)
            /\ outfile' = outfile
    /\ sock' = "closed"
    /\ pc' = "exited"
    /\ UNCHANGED <<args, user_data, attempts, sent, peer, wire, segments, rx,
                   server_response, request, response, raised>>

\* ---------------------------------------------------------- specifications

ArgsOf(url, method, headers, upload, data, output, include, verbose) ==
    [URL |-> url, Method |-> method, Headers |-> headers, Upload |-> upload,
     Data |-> data, Output |-> output, Include |-> include, Verbose |-> verbose,
     Agent |-> T_Mozilla]

\* The arguments of the client's runs against a server.
ClientArgs ==
    { ArgsOf(url, T_GET, headers, <<>>, T_hello_world, output, include, verbose) :
        url \in {URL_with_host, URL_without_host},
        headers \in { <<>>, << <<T_XTest, T_v>> >>, << <<T_1, T_v>> >> },
        output \in {<<>>, T_out_bin},
        include \in BOOLEAN,
        verbose \in BOOLEAN }

\* Before Client(args).
Fresh(a) ==
    /\ args = a
    /\ pc = "start"
    /\ user_data = <<>>
    /\ sock = "none"
    /\ attempts = 0
    /\ sent = <<>>
    /\ peer = "open"
    /\ wire = <<>>
    /\ segments = 0
    /\ rx = <<>>
    /\ server_response = <<>>
    /\ request = NoneVal
    /\ response = NoneVal
    /\ raised = NoError
    /\ stdout = <<>>
    /\ outfile = <<>>

Init == \E a \in ClientArgs : Fresh(a)

ClientNext ==
    \/ Client_init_extract_input_data
    \/ Client_init_socket
    \/ Client_init_url
    \/ Client_init_request
    \/ send_request_connect
    \/ send_request_sendall
    \/ receive_response_recv_data
    \/ receive_response_recv_eof
    \/ receive_response_recv_error
    \/ receive_response_close
    \/ receive_response_from_bytes
    \/ get_results

Next == ClientNext \/ peer_send \/ peer_close

Spec == Init /\ [][Next]_vars

\* recv is a blocking call of a running process: when it can return (bytes
\* are waiting, the server has closed, or the connection failed), it does.
receive_response_recv ==
    \/ receive_response_recv_data
    \/ receive_response_recv_eof
    \/ receive_response_recv_error

FairSpec == Spec /\ WF_vars(receive_response_recv)

\* ------------------------------------------- the specification of requests

\* The arguments the request is built from: both methods, every list of
\* user headers up to MaxUserHeaders, a body from the command line or from
\* a file, or none.
RequestArgs ==
    { ArgsOf(URL_with_host, method, headers, body[1], body[2], <<>>, FALSE, verbose) :
        method \in {T_GET, T_POST},
        headers \in SeqsUpTo(UserHeaderPairs, MaxUserHeaders),
        body \in { << <<>>, <<>> >>, << <<>>, T_hello_world >>, << T_body_bin, <<>> >> },
        verbose \in BOOLEAN }

\* Client.__init__ has read its input, made its socket and found a host.
InitRequest ==
    \E a \in RequestArgs :
        /\ args = a
        /\ pc = "init_request"
        /\ user_data = extract_input_data(a.Upload, a.Data)
        /\ sock = "open"
        /\ attempts = 0
        /\ sent = <<>>
        /\ peer = "open"
        /\ wire = <<>>
        /\ segments = 0
        /\ rx = <<>>
        /\ server_response = <<>>
        /\ request = NoneVal
        /\ response = NoneVal
        /\ raised = NoError
        /\ stdout = <<>>
        /\ outfile = <<>>

NextRequest ==
    \/ Client_init_request
    \/ send_request_connect
    \/ send_request_sendall

SpecRequest == InitRequest /\ [][NextRequest]_vars

\* ------------------------------------------- the specification of responses

T_head == <<72, 84, 84, 80, 47, 49, 46, 49, 32, 50, 48, 48, 13, 10, 88, 58>>  \* "HTTP/1.1 200\r\nX:"
T_hi == <<104, 105>>                                                     \* hi
T_a_delim_b == <<97, 13, 10, 13, 10, 98>>                                \* "a\r\n\r\nb"

\* Where the first delimiter of a long response starts: early in the first
\* read, and around the end of the first and of the second read.
DelimOffsets ==
    {Len(T_head) + 1}
        \cup {FIRST_READ - 4 + k : k \in 0..MaxShift}
        \cup {FIRST_READ + NEXT_READ - 4 + k : k \in 0..MaxShift}

\* A response whose header block is a status line and one header X, padded
\* so that the delimiter starts at offset p.
LongResponse(p, body) ==
    T_head \o [i \in 1..(p - Len(T_head)) |-> 97] \o DELIM \o body

FirstLines ==
    { <<72, 84, 84, 80, 47, 49, 46, 49, 32, 50, 48, 48, 32, 79, 75>>,        \* HTTP/1.1 200 OK
      <<72, 84, 84, 80, 47, 49, 46, 48, 32, 52, 48, 52, 32, 78, 111, 116, 32, 70, 111, 117, 110, 100>>,
                                                                             \* HTTP/1.0 404 Not Found
      <<71, 65, 82, 66, 65, 71, 69>>,                                        \* GARBAGE
      <<88, 72, 84, 84, 80, 47, 49, 46, 49, 32, 50, 48, 48, 32, 79, 75>>,    \* XHTTP/1.1 200 OK
      <<72, 84, 84, 80, 47, 49, 46, 49, 32, 50, 48>>,                        \* HTTP/1.1 20
      <<72, 84, 84, 80, 47, 50, 46, 48, 32, 50, 48, 48, 32, 79, 75>>,        \* HTTP/2.0 200 OK
      <<>> }

RestOfResponse ==
    { DELIM,
      <<13, 10, 88, 58, 32, 118, 13, 10, 13, 10, 104, 105>>,                 \* "\r\nX: v\r\n\r\nhi"
      <<13, 10, 110, 111, 99, 111, 108, 111, 110, 13, 10, 13, 10>>,          \* "\r\nnocolon\r\n\r\n"
      <<>> }

\* The buffers handed to Response.from_bytes.
ParseInputs ==
    {LongResponse(p, body) : p \in DelimOffsets, body \in {<<>>, T_hi, T_a_delim_b}}
        \cup {line \o rest : line \in FirstLines, rest \in RestOfResponse}

\* The values recv returned for a buffer: pieces of at most RECV_SIZE bytes,
\* and the empty one that ended the loop.
RECURSIVE received(_)
received(buf) ==
    IF buf = <<>> THEN << <<>> >>
    ELSE <<SliceTo(buf, RECV_SIZE)>> \o received(SliceFrom(buf, RECV_SIZE))

\* receive_response has read a response to its end and closed the socket.
InitParse ==
    \E buf \in ParseInputs, output \in {<<>>, T_out_bin}, include \in BOOLEAN :
        LET a == ArgsOf(URL_with_host, T_GET, <<>>, <<>>, <<>>, output, include, FALSE)
            r == Request(a.Method, a.URL, a.Headers, <<>>, a.Agent, a.Verbose)
        IN /\ args = a
           /\ pc = "parse"
           /\ user_data = <<>>
           /\ sock = "closed"
           /\ attempts = 1
           /\ sent = Request_bytes(r)
           /\ peer = "closed"
           /\ wire = <<>>
           /\ segments = MaxSegments
           /\ rx = received(buf)
           /\ server_response = buf
           /\ request = r
           /\ response = NoneVal
           /\ raised = NoError
           /\ stdout = <<>>
           /\ outfile = <<>>

NextParse ==
    \/ receive_response_from_bytes
    \/ get_results

SpecParse == InitParse /\ [][NextParse]_vars

\* ------------------------------------------------------------------ claims

Letters == (65..90) \cup (97..122)

\* The whole name matches [A-Za-z-]+.
MatchesHeaderPattern(name) ==
    /\ name # <<>>
    /\ \A i \in 1..Len(name) : name[i] \in Letters \cup {45}

\* The names of the pairs from position i on that no earlier pair has.
RECURSIVE DistinctNames(_, _)
DistinctNames(pairs, i) ==
    IF i > Len(pairs) THEN <<>>
    ELSE (IF \E j \in 1..(i - 1) : pairs[j][1] = pairs[i][1]
          THEN <<>> ELSE <<pairs[i][1]>>) \o DistinctNames(pairs, i + 1)

UserSupplies(pairs, name) == \E i \in 1..Len(pairs) : pairs[i][1] = name

\* The value of the last pair of that name.
LastValue(pairs, name) ==
    pairs[CHOOSE j \in 1..Len(pairs) :
              /\ pairs[j][1] = name
              /\ \A k \in (j + 1)..Len(pairs) : pairs[k][1] # name][2]

\* The map of the pairs: a name once, where it first stands, with the value
\* given last.
MapOfPairs(pairs) ==
    LET names == DistinctNames(pairs, 1)
    IN [i \in 1..Len(names) |-> <<names[i], StrVal(LastValue(pairs, names[i]))>>]

\* The number a sequence of decimal digits writes.
RECURSIVE DecimalValue(_)
DecimalValue(d) ==
    IF d = <<>> THEN 0 ELSE 10 * DecimalValue(SubSeq(d, 1, Len(d) - 1)) + (d[Len(d)] - 48)

\* The decimal numeral of n < 100, without a leading zero.
Decimal(n) ==
    CHOOSE d \in [1..1 -> Digits] \cup [1..2 -> Digits] :
        /\ DecimalValue(d) = n
        /\ Len(d) > 1 => d[1] # 48

\* The header lines of the bytes sent: the lines between the request line
\* and the first empty line.
SentHeaderLines == Tail(split(SliceTo(sent, find(sent, DELIM)), CRLF))

Line(name, value) == name \o T_ColonSp \o value

BaseNames(method) ==
    <<T_Host, T_UserAgent, T_Accept, T_Connection>>
        \o (IF method = T_POST THEN <<T_ContentLength, T_ContentType>> ELSE <<>>)

BaseValue(name) ==
    CASE name = T_Host -> args.URL.host
      [] name = T_UserAgent -> args.Agent
      [] name = T_Accept -> T_AnyType
      [] name = T_Connection -> T_close
      [] name = T_ContentLength -> Decimal(Len(user_data))
      [] name = T_ContentType -> T_text_plain

InBase(method, name) == \E i \in 1..Len(BaseNames(method)) : BaseNames(method)[i] = name

\* The value a header is to be sent with: the user's, if the user gave one.
ValueSent(name) ==
    IF UserSupplies(args.Headers, name) THEN LastValue(args.Headers, name)
    ELSE BaseValue(name)

\* The header lines in the order the claim gives them.
ExpectedHeaderLines ==
    LET base == BaseNames(args.Method)
        new == SelectSeq(DistinctNames(args.Headers, 1),
                         LAMBDA n : ~InBase(args.Method, n))
    IN [i \in 1..Len(base) |-> Line(base[i], ValueSent(base[i]))]
           \o [i \in 1..Len(new) |-> Line(new[i], ValueSent(new[i]))]

ParsedWhole(raw) ==
    LET i == find(raw, DELIM)
        lines == split(SliceTo(raw, i), CRLF)
        status == get_status(lines[1])
        hdrs == parse_headers(Tail(lines))
    IN IF status.err # "none" THEN [err |-> status.err]
       ELSE IF hdrs.err # "none" THEN [err |-> hdrs.err]
       ELSE [err |-> "none",
             status_code |-> status.status,
             headers |-> hdrs.result,
             message_body |-> SliceFrom(raw, i + 4),
             headers_as_bytes |-> SliceTo(raw, i)]

ParseOutcome == IF response = NoneVal THEN [err |-> raised.type] ELSE response

\* C1: a response that holds the delimiter is split at its first occurrence,
\* wherever that falls in the parser's reads: the raw header block is the
\* bytes before it, the body the bytes after it, and the outcome (the
\* Response, or the error) is that of parsing the two halves so split.
C1_SplitAtFirstDelimiter ==
    (pc \in {"returned", "raised"} /\ find(server_response, DELIM) # -1)
        => ParseOutcome = ParsedWhole(server_response)

\* C2: parse_user_headers returns the map of the pairs when every name is
\* made of letters and hyphens only, and otherwise raises HeaderFormatError
\* for the first name that is not, with no map returned.
C2_HeaderNamesValidated ==
    pc # "init_request" =>
        LET bad == {i \in 1..Len(args.Headers) : ~MatchesHeaderPattern(args.Headers[i][1])}
        IN IF bad = {}
           THEN request # NoneVal /\ request.user_headers = MapOfPairs(args.Headers)
           ELSE /\ request = NoneVal
                /\ raised = Error("HeaderFormatError", <<args.Headers[MinOf(bad)][1]>>)

\* C3: however send_request ends (it returned, or connect, sendall, recv or
\* the parser raised), the socket is closed.
C3_SocketClosedOnEveryExit ==
    (attempts > 0 /\ pc \in {"returned", "raised"}) => sock = "closed"

ConnectFailed == attempts > 0 /\ pc = "raised" /\ sock = "open"

\* C4: when connect fails, send_request raises ConnectingError(host, port)
\* after that one attempt, with nothing sent.
C4_ConnectFailureIsConnectingError ==
    ConnectFailed =>
        /\ raised = Error("ConnectingError", <<args.URL.host, args.URL.port>>)
        /\ attempts = 1
        /\ sent = <<>>

IsStatusLine(line) ==
    /\ Len(line) >= 12
    /\ SubSeq(line, 1, 7) = T_HTTP1dot
    /\ line[8] \in {48, 49}
    /\ line[9] = 32
    /\ \A k \in 10..12 : line[k] \in Digits

FirstLine(raw) == split(SliceTo(raw, find(raw, DELIM)), CRLF)[1]

\* C5: a Response is produced only for a first line that starts with
\* HTTP/1.0 or HTTP/1.1, a space and three digits, with that number as its
\* status code; any other first line raises IncorrectStartingLineError.
C5_StatusLineDecides ==
    (pc \in {"returned", "raised"} /\ find(server_response, DELIM) # -1) =>
        LET line == FirstLine(server_response)
        IN IF IsStatusLine(line)
           THEN response # NoneVal =>
                    response.status_code = DecimalValue(SubSeq(line, 10, 12))
           ELSE /\ response = NoneVal
                /\ raised.type = "IncorrectStartingLineError"

\* C6: when UrlParsingError is raised, no socket has been created.
C6_UrlCheckedBeforeSocket ==
    raised.type = "UrlParsingError" => sock = "none"

\* C7: a POST request with a body of L > 0 bytes is sent with the header
\* lines Content-Length: L and Content-Type: text/plain, or, for a name the
\* user gave, with the user's value in place of that one.
C7_PostContentHeaders ==
    (pc = "recv" /\ args.Method = T_POST /\ Len(user_data) > 0) =>
        \A name \in {T_ContentLength, T_ContentType} :
            LET lines == {SentHeaderLines[i] : i \in 1..Len(SentHeaderLines)}
            IN /\ Line(name, ValueSent(name)) \in lines
               /\ ValueSent(name) # BaseValue(name) => Line(name, BaseValue(name)) \notin lines

C7_Witness ==
    /\ pc = "recv"
    /\ args.Method = T_POST
    /\ Len(user_data) > 9
    /\ UserSupplies(args.Headers, T_ContentType)
    /\ ~UserSupplies(args.Headers, T_ContentLength)

OutputSink == IF args.Output # <<>> THEN outfile ELSE stdout

ClientErrors ==
    {"HeaderFormatError", "UrlParsingError", "ConnectingError", "IncorrectStartingLineError"}

\* C8, as stated: nothing is written to the output sink before there
\* is a Response, so that a run that raised one of the four errors has
\* written nothing to it.
C8_NothingWrittenBeforeResponse ==
    raised.type \in ClientErrors => OutputSink = <<>>

\* C8, amended: before there is a Response (and so in every run that raised
\* one of the four errors) the output sink holds no byte of the response:
\* it is empty, unless the run is verbose and the sink is standard output,
\* where it holds the "-> name: value" lines printed while the request was
\* serialized, and nothing else.
C8_NoResponseByteBeforeResponse ==
    /\ raised.type \in ClientErrors => response = NoneVal
    /\ response = NoneVal =>
           \/ OutputSink = <<>>
           \/ /\ args.Verbose
              /\ args.Output = <<>>
              /\ request # NoneVal
              /\ pc \notin {"start", "init_socket", "init_url", "init_request", "constructed", "sendall"}
              /\ OutputSink = verbose_trace(request.headers)
    /\ raised.type \in {"HeaderFormatError", "UrlParsingError", "ConnectingError"}
           => OutputSink = <<>>

C8_Witness ==
    /\ raised.type = "IncorrectStartingLineError"
    /\ args.Verbose
    /\ args.Output = <<>>
    /\ server_response # <<>>
    /\ stdout # <<>>

\* C9: the header lines are sent in the order Host, User-Agent, Accept,
\* Connection, then for POST Content-Length and Content-Type, then the
\* user's names that are none of these in the order given; a user's value
\* for one of these names stands in that name's place, and only there.
C9_HeaderOrder ==
    pc = "recv" => SentHeaderLines = ExpectedHeaderLines

C9_Witness ==
    /\ pc = "recv"
    /\ args.Method = T_POST
    /\ Len(args.Headers) = 2
    /\ args.Headers[1][1] = T_XTest
    /\ args.Headers[2][1] = T_Host

RECURSIVE Joined(_)
Joined(chunks) == IF chunks = <<>> THEN <<>> ELSE Head(chunks) \o Joined(Tail(chunks))

LoopLeftForParser ==
    \/ pc \in {"close", "parse", "returned", "exited"}
    \/ pc = "raised" /\ raised.type \in {"IncorrectStartingLineError", "ValueError"}

ReadToEOF ==
    /\ rx # <<>>
    /\ rx[Len(rx)] = <<>>
    /\ \A i \in 1..(Len(rx) - 1) : rx[i] # <<>>
    /\ server_response = Joined(rx)
    /\ peer = "closed"
    /\ wire = <<>>

\* C10: the parser is handed the buffer only after recv returned b"", once,
\* as the last value; the buffer is the values received before it, joined
\* in order; the loop is left to the parser only with the connection closed
\* by the server; and once the server has closed, the loop comes to an end.
C10_ReadLoopEndsOnlyAtEOF ==
    /\ [](LoopLeftForParser => ReadToEOF)
    /\ (pc = "recv" /\ peer = "closed") ~> (pc # "recv")

C10_Witness ==
    /\ pc = "parse"
    /\ Len(rx) = 3
    /\ Len(server_response) > Len(rx[1])

====
